---- MODULE Spec2Model ----
(***************************************************************************)
(* Model of the POST /query handler of src/app.py (query_database) and of  *)
(* its two module-level caches.                                            *)
(*                                                                         *)
(* A Python str is a sequence of one-character strings, so that strip(),   *)
(* lower(), replace(), isdigit() and the substring test `in` are computed  *)
(* character by character.  The fixed messages of the handler are single   *)
(* elements, which no input character equals.                              *)
(***************************************************************************)
EXTENDS Naturals, Sequences, FiniteSets

\* ------------------------------------------------------------------ bounds
\* Requests submitted in one behaviour.
MaxRequests == 2
\* Requests that can be pending at the server at the same time.
MaxInFlight == 2

Slots == 1..MaxInFlight

\* ------------------------------------------------------- str, as in Python
Whitespace == {" ", "\t", "\n"}
Digits == {"0", "1", "2", "3", "4", "5", "6", "7", "8", "9"}
UpperAlpha == <<"A", "B", "C", "D", "E", "F", "G", "H", "I", "J", "K", "L", "M", "N", "O", "P", "Q", "R", "S", "T", "U", "V", "W", "X", "Y", "Z">>
LowerAlpha == <<"a", "b", "c", "d", "e", "f", "g", "h", "i", "j", "k", "l", "m", "n", "o", "p", "q", "r", "s", "t", "u", "v", "w", "x", "y", "z">>

\* str.lower() on one character.
LowerChar(c) ==
    IF \E i \in 1..Len(UpperAlpha) : UpperAlpha[i] = c
    THEN LowerAlpha[CHOOSE i \in 1..Len(UpperAlpha) : UpperAlpha[i] = c]
    ELSE c

\* str.upper() on one character.
UpperChar(c) ==
    IF \E i \in 1..Len(LowerAlpha) : LowerAlpha[i] = c
    THEN UpperAlpha[CHOOSE i \in 1..Len(LowerAlpha) : LowerAlpha[i] = c]
    ELSE c

\* s.lower()
Lower(s) == [i \in 1..Len(s) |-> LowerChar(s[i])]

\* s.upper()
Upper(s) == [i \in 1..Len(s) |-> UpperChar(s[i])]

\* s.strip(): leading and trailing whitespace removed.
Strip(s) ==
    LET keep == {i \in 1..Len(s) : s[i] \notin Whitespace}
    IN  IF keep = {} THEN <<>>
        ELSE LET lo == CHOOSE i \in keep : \A j \in keep : i <= j
                 hi == CHOOSE i \in keep : \A j \in keep : j <= i
             IN  SubSeq(s, lo, hi)

\* sub in s
Contains(sub, s) ==
    \E i \in 1..(Len(s) + 1) :
        /\ i + Len(sub) - 1 <= Len(s)
        /\ SubSeq(s, i, i + Len(sub) - 1) = sub

\* s.replace(c, '') for a one-character c.
Remove(s, c) == SelectSeq(s, LAMBDA x : x # c)

\* s.isdigit(): at least one character, and every character a digit.
IsDigit(s) == Len(s) > 0 /\ \A i \in 1..Len(s) : s[i] \in Digits

\* hashlib.md5(s.encode()).hexdigest(): the digest of s.  Two different
\* strings have different digests (no MD5 collision among the requests).
md5(s) == <<"md5">> \o s

\* ------------------------------------------------- literals of query_database
greetings == << <<"h", "i">>,
                <<"h", "e", "l", "l", "o">>,
                <<"h", "e", "y">>,
                <<"g", "r", "e", "e", "t", "i", "n", "g", "s">>,
                <<"g", "o", "o", "d", " ", "m", "o", "r", "n", "i", "n", "g">>,
                <<"g", "o", "o", "d", " ", "a", "f", "t", "e", "r", "n", "o", "o", "n">>,
                <<"g", "o", "o", "d", " ", "e", "v", "e", "n", "i", "n", "g">> >>

GreetingMsg == <<"Hello! I'm here to help with questions about port financials and operations. What would you like to know?">>
DeclineMsg == <<"I'm sorry, I can only answer questions about port financials and operations.">>
QuotaMsg == <<"Sorry, the AI service quota has been exceeded. Please check your Google Cloud billing or wait for the quota to reset (typically daily for free tier).">>
ApologyMsg == <<"I'm sorry, I encountered an error processing your question. Please try rephrasing.">>
ResultPrefix == <<"The result is ">>
SqlPrefix == <<"\n\nSQL Query Used: ">>
DefaultSql == <<"Generated by SQL Agent">>
RelevancePromptPrefix == <<"Is this question about port financials or operations? Answer 'yes' or 'no': ">>

StrResourceExhausted == <<"R", "e", "s", "o", "u", "r", "c", "e", "E", "x", "h", "a", "u", "s", "t", "e", "d">>
Str429 == <<"4", "2", "9">>
StrQuota == <<"q", "u", "o", "t", "a">>
StrNo == <<"n", "o">>
StrYes == <<"y", "e", "s">>
StrSelect == <<"S", "E", "L", "E", "C", "T">>
StrActionInput == <<"Action Input:">>
\* The code-fence markers; the backquote is written ~ here.
StrFenceSql == <<"~~~sql">>
StrFence == <<"~~~">>

\* ------------------------------------------------------------------ inputs
\* The request bodies' question strings.
RawQuestions ==
    { <<" ", "H", "i", "\t">>,
      <<"i", "s", " ", "s", "h", "i", "p", "p", "i", "n", "g", " ", "u", "p">>,
      <<"r", "o", "c", "e">>,
      <<" ", "r", "o", "c", "e">>,
      <<>>,
      <<" ", " ">> }

\* What llm.invoke(...).content can be for the relevance prompt.
RelevanceAnswers ==
    { <<"Y", "e", "s">>,
      <<"N", "o">>,
      <<"n", "o", ".">> }

\* str(e) of the exceptions the LLM client or the agent can raise.
ErrorTexts ==
    { <<"4", "2", "9", " ", "T", "o", "o", " ", "M", "a", "n", "y">>,
      <<"Q", "u", "o", "t", "a", " ", "e", "x", "c", "e", "e", "d", "e", "d">>,
      <<"R", "e", "s", "o", "u", "r", "c", "e", "E", "x", "h", "a", "u", "s", "t", "e", "d">>,
      <<"t", "i", "m", "e", "o", "u", "t">> }

\* result['output'] of the agent.
FinalAnswers ==
    { <<"1", ",", "2", ".", "5">>,
      <<"1", " ", "2">>,
      <<"n", "/", "a">>,
      <<".">>,
      <<>> }

\* action.log of an agent step that ran a query, and of one that did not say
\* its input.
LogWithSelect == <<"Thought: run the query. ", "Action Input:", " ", "~~~sql", "s", "e", "l", "e", "c", "t", " ", "1", "~~~", "\n">>
LogWithoutInput == <<"s", "e", "l", "e", "c", "t", " ", "1">>

\* result['intermediate_steps'] of the agent, each step the (action, observation)
\* pair's action.
StepLists ==
    { <<>>,
      << [tool |-> "sql_db_query", log |-> LogWithSelect],
         [tool |-> "sql_db_schema", log |-> LogWithSelect],
         [tool |-> "sql_db_query", log |-> LogWithoutInput] >> }

\* ------------------------------------------------ the handler's computations
\* question_hash = hashlib.md5(question.encode()).hexdigest()
QuestionHash(question) == md5(question)

\* relevance_prompt and relevance_hash
RelevancePrompt(question) == RelevancePromptPrefix \o question
RelevanceHash(question) == md5(RelevancePrompt(question))

\* The greeting test without its second half: only a question that equals a
\* vocabulary entry.
IsGreetingExactOnly(question) ==
    \E i \in 1..Len(greetings) : greetings[i] = Lower(question)

\* question.lower() in greetings or any(greet in question.lower() for greet in greetings)
IsGreeting(question) ==
    \/ \E i \in 1..Len(greetings) : greetings[i] = Lower(question)
    \/ \E i \in 1..Len(greetings) : Contains(greetings[i], Lower(question))

\* The quota test with "quota" looked for in error_str as it is, not lower-cased.
IsQuotaErrorCaseSensitive(error_str) ==
    \/ Contains(StrResourceExhausted, error_str)
    \/ Contains(Str429, error_str)
    \/ Contains(StrQuota, error_str)

\* "ResourceExhausted" in error_str or "429" in error_str or "quota" in error_str.lower()
IsQuotaError(error_str) ==
    \/ Contains(StrResourceExhausted, error_str)
    \/ Contains(Str429, error_str)
    \/ Contains(StrQuota, Lower(error_str))

\* The except branch answering "no" for an error that is not a quota error.
RelevanceOnErrorFailsClosed(error_str) ==
    IF IsQuotaError(error_str) THEN StrYes ELSE StrNo

\* The except branch of the relevance check: relevance_response = "yes" on
\* either side of the quota test.
RelevanceOnError(error_str) ==
    IF IsQuotaError(error_str) THEN StrYes ELSE StrYes

\* The relevance test as an equality with "no".
IsNotRelevantExact(relevance_response) == relevance_response = StrNo

\* "no" in relevance_response
IsNotRelevant(relevance_response) == Contains(StrNo, relevance_response)

\* The numeric test without the removal of decimal points.
NeedsWrapKeepingPoints(final_answer) ==
    /\ Len(final_answer) > 0
    /\ IsDigit(Remove(Remove(final_answer, ","), " "))

\* final_answer and final_answer.replace(',', '').replace('.', '').replace(' ', '').isdigit()
NeedsWrap(final_answer) ==
    /\ Len(final_answer) > 0
    /\ IsDigit(Remove(Remove(Remove(final_answer, ","), "."), " "))

\* log.split('Action Input:', 1)[1].strip().replace(fence-sql, '').replace(fence, '').strip()
CleanedQuery(log) ==
    LET at == CHOOSE i \in 1..Len(log) :
                  /\ log[i] = StrActionInput[1]
                  /\ \A j \in 1..(i - 1) : log[j] # StrActionInput[1]
        input_part == Strip(SubSeq(log, at + 1, Len(log)))
    IN  Strip(Remove(Remove(input_part, StrFenceSql[1]), StrFence[1]))

\* The body of the loop over intermediate_steps for one step: the new sql_query.
SqlOfStep(sql_query, action) ==
    IF /\ action.tool = "sql_db_query"
       /\ Contains(StrActionInput, action.log)
       /\ Contains(StrSelect, Upper(CleanedQuery(action.log)))
    THEN CleanedQuery(action.log)
    ELSE sql_query

\* The loop over intermediate_steps, from sql_query = "Generated by SQL Agent".
RECURSIVE ExtractSql(_, _)
ExtractSql(sql_query, steps) ==
    IF steps = <<>> THEN sql_query
    ELSE ExtractSql(SqlOfStep(sql_query, Head(steps)), Tail(steps))

\* The response built from the agent's result.
ShapeAnswer(final_answer, steps) ==
    LET sql_query == ExtractSql(DefaultSql, steps)
        wrapped == IF NeedsWrap(final_answer)
                   THEN ResultPrefix \o final_answer \o <<".">>
                   ELSE final_answer
    IN  IF sql_query # DefaultSql THEN wrapped \o SqlPrefix \o sql_query ELSE wrapped

\* The response for an exception of the agent.
ErrorResponse(error_str) ==
    IF IsQuotaError(error_str) THEN QuotaMsg ELSE ApologyMsg

\* cache[key] = value on a dict.
Put(cache, key, value) ==
    [k \in (DOMAIN cache) \cup {key} |-> IF k = key THEN value ELSE cache[k]]

\* A return that leaves the response cache as it was.
StoreDeclineDropped(cache, question_hash, response) == cache
StoreErrorDropped(cache, question_hash, response) == cache

\* response_cache[question_hash] = response, at each place the handler does it.
StoreGreeting(cache, question_hash, response) == Put(cache, question_hash, response)
StoreDecline(cache, question_hash, response) == Put(cache, question_hash, response)
StoreAnswer(cache, question_hash, response) == Put(cache, question_hash, response)
StoreError(cache, question_hash, response) == Put(cache, question_hash, response)

\* relevance_cache[relevance_hash] = relevance_response
StoreRelevance(cache, relevance_hash, relevance_response) ==
    Put(cache, relevance_hash, relevance_response)

\* The dict with no entry.
EmptyDict == [k \in {} |-> <<>>]

\* --------------------------------------------------------------------- state
VARIABLES
    response_cache,   \* the module's response_cache dict: question hash -> response
    relevance_cache,  \* the module's relevance_cache dict: prompt hash -> answer
    req,              \* the pending requests: the handler's locals and position
    running,          \* the request whose handler holds the event loop, or 0
    arrived,          \* the number of requests submitted so far
    answered,         \* history: question hash -> the first response returned for it
    last              \* history: the request that returned most recently

vars == <<response_cache, relevance_cache, req, running, arrived, answered, last>>

\* A slot with no request.
Idle ==
    [ pc |-> "idle", raw |-> <<>>, question |-> <<>>, relevance_response |-> <<>>,
      response |-> <<>>, status |-> 0, outcome |-> "none",
      rel_calls |-> 0, agent_calls |-> 0, rel_raised |-> FALSE, rel_cache_hit |-> FALSE,
      prior |-> {}, classifier |-> {}, final_answer |-> {}, error_str |-> {} ]

Init ==
    /\ response_cache = EmptyDict
    /\ relevance_cache = EmptyDict
    /\ req = [r \in Slots |-> Idle]
    /\ running = 0
    /\ arrived = 0
    /\ answered = EmptyDict
    /\ last = Idle

\* The positions at which a handler is inside llm.invoke (line 90) or
\* agent_executor.invoke (line 108).
CallPositions == {"relevance_call", "agent_call"}

\* return {"response": response}: FastAPI answers 200 with that body.
Returned(rec, response, outcome) ==
    [rec EXCEPT !.pc = "done", !.response = response, !.status = 200, !.outcome = outcome]

\* The history of first responses, after `response` is returned for the hash.
Remember(question_hash, response) ==
    IF question_hash \in DOMAIN answered THEN answered
    ELSE Put(answered, question_hash, response)

\* The handler of request r returns: the event loop is free again.
Complete(r, rec, response, outcome) ==
    /\ req' = [req EXCEPT ![r] = Idle]
    /\ last' = Returned(rec, response, outcome)
    /\ answered' = Remember(QuestionHash(rec.question), response)
    /\ running' = 0

\* Lines 101-108: the decline of a question judged not relevant, or else the
\* call of the agent.
Decide(r, rec) ==
    IF IsNotRelevant(rec.relevance_response)
    THEN /\ response_cache' = StoreDecline(response_cache, QuestionHash(rec.question), DeclineMsg)
         /\ Complete(r, rec, DeclineMsg, "decline")
    ELSE /\ req' = [req EXCEPT ![r] = [rec EXCEPT !.pc = "agent_call", !.agent_calls = @ + 1]]
         /\ running' = r
         /\ UNCHANGED <<response_cache, answered, last>>

\* A client posts {"question": raw} to /query; the request waits for the event loop.
Arrive(r, raw) ==
    /\ req[r].pc = "idle"
    /\ \A s \in Slots : s < r => req[s].pc # "idle"
    /\ arrived < MaxRequests
    /\ req' = [req EXCEPT ![r] = [Idle EXCEPT !.pc = "queued", !.raw = raw]]
    /\ arrived' = arrived + 1
    /\ UNCHANGED <<response_cache, relevance_cache, running, answered, last>>

\* The event loop runs the handler of a pending request: lines 66-90, up to
\* the first return or to the call of the LLM.
Begin(r) ==
    /\ running = 0
    /\ req[r].pc = "queued"
    /\ LET question == Strip(req[r].raw)
           question_hash == QuestionHash(question)
           rec == [req[r] EXCEPT !.question = question,
                                 !.prior = IF question_hash \in DOMAIN answered
                                           THEN {answered[question_hash]} ELSE {}]
       IN  IF question_hash \in DOMAIN response_cache
           THEN /\ Complete(r, rec, response_cache[question_hash], "cached")
                /\ UNCHANGED <<response_cache, relevance_cache>>
           ELSE IF IsGreeting(question)
           THEN /\ response_cache' = StoreGreeting(response_cache, question_hash, GreetingMsg)
                /\ Complete(r, rec, GreetingMsg, "greeting")
                /\ UNCHANGED relevance_cache
           ELSE IF RelevanceHash(question) \in DOMAIN relevance_cache
           THEN /\ Decide(r, [rec EXCEPT !.relevance_response = relevance_cache[RelevanceHash(question)],
                                         !.rel_cache_hit = TRUE])
                /\ UNCHANGED relevance_cache
           ELSE /\ req' = [req EXCEPT ![r] = [rec EXCEPT !.pc = "relevance_call", !.rel_calls = @ + 1]]
                /\ running' = r
                /\ UNCHANGED <<response_cache, relevance_cache, answered, last>>
    /\ UNCHANGED arrived

\* llm.invoke returns `content` for the relevance prompt: lines 90-91, then 101-108.
RelevanceReturn(r, content) ==
    /\ running = r
    /\ req[r].pc = "relevance_call"
    /\ relevance_cache' = StoreRelevance(relevance_cache, RelevanceHash(req[r].question), Lower(content))
    /\ Decide(r, [req[r] EXCEPT !.relevance_response = Lower(content), !.classifier = {content}])
    /\ UNCHANGED arrived

\* llm.invoke raises for the relevance prompt: lines 92-99, then 101-108.
RelevanceRaise(r, error_str) ==
    /\ running = r
    /\ req[r].pc = "relevance_call"
    /\ Decide(r, [req[r] EXCEPT !.relevance_response = RelevanceOnError(error_str),
                                !.rel_raised = TRUE])
    /\ UNCHANGED <<relevance_cache, arrived>>

\* agent_executor.invoke returns: lines 108-140.
AgentReturn(r, final_answer, steps) ==
    /\ running = r
    /\ req[r].pc = "agent_call"
    /\ response_cache' = StoreAnswer(response_cache, QuestionHash(req[r].question),
                                     ShapeAnswer(final_answer, steps))
    /\ Complete(r, [req[r] EXCEPT !.final_answer = {final_answer}],
                ShapeAnswer(final_answer, steps), "answer")
    /\ UNCHANGED <<relevance_cache, arrived>>

\* agent_executor.invoke raises: lines 141-152.
AgentRaise(r, error_str) ==
    /\ running = r
    /\ req[r].pc = "agent_call"
    /\ response_cache' = StoreError(response_cache, QuestionHash(req[r].question),
                                    ErrorResponse(error_str))
    /\ Complete(r, [req[r] EXCEPT !.error_str = {error_str}], ErrorResponse(error_str), "error")
    /\ UNCHANGED <<relevance_cache, arrived>>

Next ==
    \/ \E r \in Slots, raw \in RawQuestions : Arrive(r, raw)
    \/ \E r \in Slots : Begin(r)
    \/ \E r \in Slots, content \in RelevanceAnswers : RelevanceReturn(r, content)
    \/ \E r \in Slots, error_str \in ErrorTexts : RelevanceRaise(r, error_str)
    \/ \E r \in Slots, final_answer \in FinalAnswers, steps \in StepLists : AgentReturn(r, final_answer, steps)
    \/ \E r \in Slots, error_str \in ErrorTexts : AgentRaise(r, error_str)

Spec == Init /\ [][Next]_vars

\* ==================================================================== claims
\* C1: once a request for a question has returned, every request handled later
\* whose trimmed text is the same returns that same response string, and makes
\* neither a relevance-classification call nor an agent call.
C1_RepeatReturnsFirstResponse ==
    /\ (last.pc = "done" /\ last.prior # {}) =>
           /\ last.prior = {last.response}
           /\ last.rel_calls = 0
           /\ last.agent_calls = 0
    /\ \A r \in Slots : req[r].prior # {} => req[r].pc \notin CallPositions

\* C1 witness: a repeat of a question first answered by the agent path (an
\* answer or an error text) has been served.
C1_Witness ==
    /\ last.pc = "done"
    /\ last.prior = {last.response}
    /\ last.outcome = "cached"
    /\ last.response \notin {GreetingMsg, DeclineMsg}

\* C2: a question whose trimmed, lower-cased text equals or contains a greeting
\* vocabulary entry is answered with the fixed greeting, whatever the caches
\* hold, and its handler never reaches the relevance call or the agent call.
C2_GreetingPatternGetsGreeting ==
    LET Matches(q) == \E i \in 1..Len(greetings) :
                          \E j \in 1..(Len(q) + 1) :
                              /\ j + Len(greetings[i]) - 1 <= Len(q)
                              /\ Lower(SubSeq(q, j, j + Len(greetings[i]) - 1)) = greetings[i]
    IN  /\ (last.pc = "done" /\ Matches(last.question)) =>
               /\ last.response = GreetingMsg
               /\ last.rel_calls = 0
               /\ last.agent_calls = 0
        /\ \A r \in Slots : req[r].pc \in CallPositions => ~Matches(req[r].question)

\* C2 witness: a question that only contains a greeting word, in a request that
\* found nothing in the cache, got the greeting.
C2_Witness ==
    /\ last.pc = "done"
    /\ last.outcome = "greeting"
    /\ \A i \in 1..Len(greetings) : greetings[i] # Lower(last.question)
    /\ last.response = GreetingMsg

\* C3: a request whose question is empty after trimming is rejected with
\* status 400, makes no LLM call and leaves both caches without an entry for it.
C3_EmptyQuestionRejected ==
    (last.pc = "done" /\ last.question = <<>>) =>
        /\ last.status = 400
        /\ last.rel_calls = 0
        /\ last.agent_calls = 0
        /\ QuestionHash(<<>>) \notin DOMAIN response_cache
        /\ RelevanceHash(<<>>) \notin DOMAIN relevance_cache

\* C4: when the classifier's answer to a request is "no" (in any case, with or
\* without punctuation after it), the response is the fixed decline string,
\* the agent is not called, and the decline string is in the response cache
\* under the question's hash.
C4_NotRelevantDeclined ==
    (last.pc = "done" /\ \E c \in last.classifier : Len(c) >= 2 /\ Lower(SubSeq(c, 1, 2)) = StrNo) =>
        /\ last.response = DeclineMsg
        /\ last.agent_calls = 0
        /\ QuestionHash(last.question) \in DOMAIN response_cache
        /\ response_cache[QuestionHash(last.question)] = DeclineMsg

\* C4 witness: a question was declined on the classifier's answer "no.".
C4_Witness ==
    /\ last.pc = "done"
    /\ last.outcome = "decline"
    /\ last.classifier = {<<"n", "o", ".">>}
    /\ last.question = <<"r", "o", "c", "e">>

\* C5: when the relevance call raises, the request still returns 200, the
\* handler goes on to the agent as for the answer "yes", the decline is not
\* returned, and the relevance cache gets no entry for the prompt.
C5_RelevanceErrorAssumesRelevant ==
    /\ (last.pc = "done" /\ last.rel_raised) =>
           /\ last.status = 200
           /\ last.agent_calls = 1
           /\ last.outcome \in {"answer", "error"}
           /\ last.relevance_response = StrYes
           /\ RelevanceHash(last.question) \notin DOMAIN relevance_cache
    /\ \A r \in Slots : req[r].rel_raised =>
           /\ req[r].pc = "agent_call"
           /\ req[r].relevance_response = StrYes

\* C5 witness: a request whose relevance call raised was answered by the agent.
C5_Witness ==
    /\ last.pc = "done"
    /\ last.rel_raised
    /\ last.outcome = "answer"
    /\ last.agent_calls = 1

\* C6 as stated: with "purely numeric" meaning only digits once commas and
\* decimal points are removed, a purely numeric final answer is returned inside
\* "The result is <number>." and any other final answer is returned unwrapped.
C6_WrapsExactlyCommaPointNumbers ==
    (last.pc = "done" /\ last.outcome = "answer") =>
        \A fa \in last.final_answer :
            LET stripped == SelectSeq(fa, LAMBDA x : x \notin {",", "."})
                numeric == stripped # <<>> /\ \A i \in 1..Len(stripped) : stripped[i] \in Digits
                sentence == ResultPrefix \o fa \o <<".">>
            IN  IF numeric
                THEN /\ Len(last.response) >= Len(sentence)
                     /\ SubSeq(last.response, 1, Len(sentence)) = sentence
                     /\ last.response # fa
                ELSE /\ Len(last.response) >= Len(fa)
                     /\ SubSeq(last.response, 1, Len(fa)) = fa
                     /\ (last.response = <<>> \/ Head(last.response) # ResultPrefix[1])

\* C6 amended: with "purely numeric" meaning only digits, and at least one,
\* once commas, decimal points and spaces are removed, a purely numeric final
\* answer is returned inside "The result is <number>." (never bare), and any
\* other final answer is returned unwrapped; the text of the SQL query may
\* follow either.
C6_WrapsExactlyNumbers ==
    (last.pc = "done" /\ last.outcome = "answer") =>
        \A fa \in last.final_answer :
            LET stripped == SelectSeq(fa, LAMBDA x : x \notin {",", ".", " "})
                numeric == stripped # <<>> /\ \A i \in 1..Len(stripped) : stripped[i] \in Digits
                sentence == ResultPrefix \o fa \o <<".">>
            IN  IF numeric
                THEN /\ Len(last.response) >= Len(sentence)
                     /\ SubSeq(last.response, 1, Len(sentence)) = sentence
                     /\ last.response # fa
                ELSE /\ Len(last.response) >= Len(fa)
                     /\ SubSeq(last.response, 1, Len(fa)) = fa
                     /\ (last.response = <<>> \/ Head(last.response) # ResultPrefix[1])

\* C6 witness: the final answer "1,2.5" was returned as "The result is 1,2.5.".
C6_Witness ==
    /\ last.pc = "done"
    /\ last.outcome = "answer"
    /\ last.final_answer = {<<"1", ",", "2", ".", "5">>}
    /\ last.response = ResultPrefix \o <<"1", ",", "2", ".", "5", ".">>

\* C7: when the agent raises, the response is the quota message if the error
\* text contains "ResourceExhausted", "429" or, in any case, "quota", and the
\* generic apology otherwise; the error text is not part of the response; the
\* response is in the response cache under the question's hash; and a repeat
\* of the question returns that text without a call of the agent.
C7_AgentErrorsMapToFixedTexts ==
    /\ (last.pc = "done" /\ last.outcome = "error") =>
           \A e \in last.error_str :
               LET Has(sub, t) == \E i \in 1..(Len(t) + 1) :
                                      /\ i + Len(sub) - 1 <= Len(t)
                                      /\ SubSeq(t, i, i + Len(sub) - 1) = sub
                   quota == \/ Has(StrResourceExhausted, e)
                            \/ Has(Str429, e)
                            \/ Has(StrQuota, Lower(e))
               IN  /\ last.response = IF quota THEN QuotaMsg ELSE ApologyMsg
                   /\ ~Has(e, last.response)
                   /\ QuestionHash(last.question) \in DOMAIN response_cache
                   /\ response_cache[QuestionHash(last.question)] = last.response
    /\ (last.pc = "done" /\ last.prior \cap {QuotaMsg, ApologyMsg} # {}) =>
           /\ last.response \in last.prior
           /\ last.agent_calls = 0

\* C7 witness: the agent's error "Quota exceeded" was answered with the quota
\* message.
C7_Witness ==
    /\ last.pc = "done"
    /\ last.outcome = "error"
    /\ last.error_str = {<<"Q", "u", "o", "t", "a", " ", "e", "x", "c", "e", "e", "d", "e", "d">>}
    /\ last.response = QuotaMsg

\* C8: there is a length threshold, no larger than the longest question asked,
\* such that a request that found nothing in the cache is answered with the
\* greeting only if its question is shorter than the threshold; a longer
\* question goes to the relevance classification.
C8_GreetingOnlyForShortQuestions ==
    LET longest == CHOOSE n \in {Len(Strip(q)) : q \in RawQuestions} :
                       \A q \in RawQuestions : Len(Strip(q)) <= n
    IN  \E threshold \in 1..longest :
            (last.pc = "done" /\ last.outcome = "greeting") => Len(last.question) < threshold

\* C9: the calls of the LLM and of the agent are offloaded: while one request
\* is inside such a call, the handler of another pending request can start
\* (and so miss the response cache as well).
C9_OtherRequestsRunDuringLlmCall ==
    \A r \in Slots, o \in Slots :
        (req[r].pc \in CallPositions /\ req[o].pc = "queued") => ENABLED Begin(o)

\* C10: no handler takes the relevance-cache hit branch, and whenever no
\* handler is running, every question whose classification prompt is in the
\* relevance cache has its response in the response cache.
C10_RelevanceCacheHitNeverTaken ==
    /\ last.rel_cache_hit = FALSE
    /\ \A r \in Slots : req[r].rel_cache_hit = FALSE
    /\ running = 0 =>
           \A raw \in RawQuestions :
               RelevanceHash(Strip(raw)) \in DOMAIN relevance_cache =>
                   QuestionHash(Strip(raw)) \in DOMAIN response_cache

\* C10 witness: a repeat of a question whose classification is in the
\* relevance cache was served from the response cache.
C10_Witness ==
    /\ running = 0
    /\ last.pc = "done"
    /\ last.outcome = "cached"
    /\ RelevanceHash(last.question) \in DOMAIN relevance_cache

====
